---- MODULE Spec2Model ----
(***************************************************************************)
(* postal_go: the Message builder (Attach, AttachFile) and the delivery    *)
(* adapter (ApiClient.SendMessage) of src/client.go.                       *)
(*                                                                         *)
(* A Go string or []byte is a sequence of tokens (characters, or longer    *)
(* literal pieces of the source's format strings).  A textproto.MIMEHeader *)
(* is a function from canonical header names to sequences of values.       *)
(***************************************************************************)
EXTENDS Integers, Sequences, FiniteSets, TLC

\* ------------------------------------------------------------------ bounds

\* Builder calls (Attach, AttachFile) one caller makes on its Message.
MaxCalls == 3

\* ------------------------------------------------------------- constants

HdrContentType == "Content-Type"
HdrContentTransferEncoding == "Content-Transfer-Encoding"
HdrContentDisposition == "Content-Disposition"
ContentTypeOctetStream == <<"application/octet-stream">>
HdrContentID == "Content-ID"
contentEncBase64 == <<"base64">>

StatusOK == 200

\* ---------------------------------------------------------------- strings

\* strings.HasSuffix
HasSuffix(s, suffix) ==
    /\ Len(s) >= Len(suffix)
    /\ SubSeq(s, Len(s) - Len(suffix) + 1, Len(s)) = suffix

\* strings.TrimSuffix: s without the suffix, once, when s ends with it.
TrimSuffix(s, suffix) ==
    IF HasSuffix(s, suffix) THEN SubSeq(s, 1, Len(s) - Len(suffix)) ELSE s

\* The positions of token c in s.
Positions(s, c) == {i \in 1..Len(s) : s[i] = c}

Max(S) == CHOOSE x \in S : \A y \in S : y <= x

\* filepath.Base: the last element of the path (paths here neither are empty
\* nor end in a separator).
Base(path) ==
    IF Positions(path, "/") = {} THEN path
    ELSE SubSeq(path, Max(Positions(path, "/")) + 1, Len(path))

\* filepath.Ext: the suffix beginning at the final dot of the last element.
Ext(path) ==
    LET b == Base(path)
    IN  IF Positions(b, ".") = {} THEN <<>>
        ELSE SubSeq(b, Max(Positions(b, ".")), Len(b))

\* mime.TypeByExtension: empty for an extension it does not know.
TypeByExtension(ext) ==
    IF ext = <<".", "t", "x", "t">> THEN <<"text/plain; charset=utf-8">>
    ELSE <<>>

\* ---------------------------------------------------------------- headers

\* textproto.CanonicalMIMEHeaderKey on the header names in use: the first
\* letter and every letter after a hyphen upper case, the rest lower case.
CanonicalMIMEHeaderKey(key) ==
    CASE key = "content-type" -> "Content-Type"
      [] key = "Content-ID" -> "Content-Id"
      [] OTHER -> key

\* textproto.MIMEHeader.Set: the values of key are replaced by the one value.
HeaderSet(h, key, value) ==
    LET k == CanonicalMIMEHeaderKey(key)
    IN  [x \in DOMAIN h \cup {k} |-> IF x = k THEN <<value>> ELSE h[x]]

\* textproto.MIMEHeader.Values / Get.
HeaderValues(h, key) ==
    LET k == CanonicalMIMEHeaderKey(key)
    IN  IF k \in DOMAIN h THEN h[k] ELSE <<>>

HeaderGet(h, key) ==
    IF HeaderValues(h, key) = <<>> THEN <<>> ELSE HeaderValues(h, key)[1]

NoHeader == [x \in {} |-> <<>>]

\* The inner loop of Attach (for _, v := range val): one Set per value.
RECURSIVE SetEach(_, _, _)
SetEach(h, key, vals) ==
    IF vals = <<>> THEN h
    ELSE SetEach(HeaderSet(h, key, Head(vals)), key, Tail(vals))

\* The outer loop of Attach (for key, val := range headers), the keys taken
\* in the order `order` (Go leaves the order of a map's keys open).
RECURSIVE MergeHeaders(_, _, _)
MergeHeaders(h, headers, order) ==
    IF order = <<>> THEN h
    ELSE MergeHeaders(SetEach(h, Head(order), headers[Head(order)]),
                      headers, Tail(order))

\* The orders in which a range over the map may visit its keys.
KeyOrders(headers) ==
    LET n == Cardinality(DOMAIN headers)
    IN  {o \in [1..n -> DOMAIN headers] : \A i, j \in 1..n : o[i] = o[j] => i = j}

\* ---------------------------------------------------------------- Message

\* The attachment built by Attach from what was read and the arguments.
NewAttachment(content, filename, contentType, headers, order) ==
    LET h0 == NoHeader
        h1 == IF contentType # <<>>
              THEN HeaderSet(h0, HdrContentType, contentType)
              ELSE HeaderSet(h0, HdrContentType, ContentTypeOctetStream)
        h2 == HeaderSet(h1, HdrContentDisposition,
                        <<"attachment;\r\n ", "filename=\"">> \o filename \o <<"\"">>)
        h3 == HeaderSet(h2, HdrContentID, <<"<">> \o filename \o <<">">>)
        h4 == HeaderSet(h3, HdrContentTransferEncoding, contentEncBase64)
    IN  [Filename |-> filename,
         Header |-> MergeHeaders(h4, headers, order),
         Content |-> content,
         HTMLRelated |-> FALSE]

\* append(m.attachments, at)
AppendAttachment(attachments, at) == Append(attachments, at)

\* Attach without its early return: the read error is returned, and what was
\* read is attached all the same.
AttachResultAppendOnError(m, r, filename, contentType, headers, order) ==
    [err |-> IF r.err THEN "read error" ELSE "nil",
     m |-> [m EXCEPT !.attachments =
               AppendAttachment(@, NewAttachment(r.data, filename, contentType,
                                                 headers, order))]]

\* Message.Attach on message m: [err, m], the error returned and the message
\* afterwards.  A reader r is [data, err]: io.Copy yields data, or fails.
AttachResult(m, r, filename, contentType, headers, order) ==
    IF r.err
    THEN [err |-> "read error", m |-> m]
    ELSE [err |-> "nil",
          m |-> [m EXCEPT !.attachments =
                    AppendAttachment(@, NewAttachment(r.data, filename, contentType,
                                                      headers, order))]]

\* ------------------------------------------------------------ file system

PathHello == <<"t", "e", "s", "t", "/", "h", "e", "l", "l", "o", ".", "t", "x", "t">>
PathNoExt == <<"t", "e", "s", "t", "/", "b", "l", "o", "b">>
PathDir == <<"t", "e", "s", "t">>
PathMissing == <<"n", "o", "p", "e", ".", "t", "x", "t">>

Paths == {PathHello, PathNoExt, PathDir, PathMissing}

\* os.Open succeeds on what exists (a directory too).
FileExists(path) == path # PathMissing

\* What reading the opened file yields: its bytes, or a read error (a directory).
FileReader(path) ==
    CASE path = PathHello -> [data |-> <<"h", "e", "l", "l", "o">>, err |-> FALSE]
      [] path = PathNoExt -> [data |-> <<"0", "1">>, err |-> FALSE]
      [] OTHER -> [data |-> <<>>, err |-> TRUE]

\* ------------------------------------------------------------------ state

Callers == {"c1", "c2"}

VARIABLES
    client,     \* the ApiClient: [baseURI, token]
    msg,        \* msg[p]: caller p's Message
    ncalls,     \* ncalls[p]: builder calls p has completed on msg[p]
    ret,        \* ret[p]: what p's last builder call returned
    args,       \* args[p]: the arguments of p's last builder call
    af,         \* af[p]: p's AttachFile frame, [pc, path]
    openFiles,  \* the file handles open, <<caller, path>>
    call,       \* call[p]: p's SendMessage frame
    openBodies  \* the callers whose response body is open

vars == <<client, msg, ncalls, ret, args, af, openFiles, call, openBodies>>

\* The Message literal of TestSend, with the given envelope.
NewMessage(from, to) ==
    [To |-> to, From |-> from, Sender |-> "", Subject |-> "Test Email",
     ReplyTo |-> <<>>, Cc |-> <<>>, Bcc |-> <<>>,
     PlainBody |-> "Test Email from postal_go", HTMLBody |-> "",
     Headers |-> NoHeader, attachments |-> <<>>]

AfIdle == [pc |-> "idle", path |-> <<>>]

NoArgs ==
    [op |-> "", r |-> [data |-> <<>>, err |-> FALSE], filename |-> <<>>,
     contentType |-> <<>>, headers |-> NoHeader, path |-> <<>>]

\* ------------------------------------------------------- builder actions

\* m.Attach(r, filename, contentType, headers), called by p on msg[p].
Attach(p, r, filename, contentType, headers) ==
    /\ af[p].pc = "idle"
    /\ call[p].pc = "idle"
    /\ ncalls[p] < MaxCalls
    /\ \E order \in KeyOrders(headers) :
          LET res == AttachResult(msg[p], r, filename, contentType, headers, order)
          IN  /\ msg' = [msg EXCEPT ![p] = res.m]
              /\ ret' = [ret EXCEPT ![p] = res.err]
    /\ args' = [args EXCEPT ![p] = [NoArgs EXCEPT !.op = "Attach", !.r = r,
                                       !.filename = filename,
                                       !.contentType = contentType,
                                       !.headers = headers]]
    /\ ncalls' = [ncalls EXCEPT ![p] = @ + 1]
    /\ UNCHANGED <<client, af, openFiles, call, openBodies>>

\* AttachFile up to os.Open: the open error is returned at once, and
\* otherwise the handle is open and its Close deferred.
AttachFileOpen(p, path) ==
    /\ af[p].pc = "idle"
    /\ call[p].pc = "idle"
    /\ ncalls[p] < MaxCalls
    /\ IF FileExists(path)
       THEN /\ af' = [af EXCEPT ![p] = [pc |-> "opened", path |-> path]]
            /\ openFiles' = openFiles \cup {<<p, path>>}
            /\ UNCHANGED <<ret, args, ncalls>>
       ELSE /\ ret' = [ret EXCEPT ![p] = "open error"]
            /\ args' = [args EXCEPT ![p] = [NoArgs EXCEPT !.op = "AttachFile",
                                                            !.path = path]]
            /\ ncalls' = [ncalls EXCEPT ![p] = @ + 1]
            /\ UNCHANGED <<af, openFiles>>
    /\ UNCHANGED <<client, msg, call, openBodies>>

\* The Close only on the success path: the handle stays open when Attach fails.
FilesAfterReturnLeaky(files, p, path, err) ==
    IF err = "nil" THEN files \ {<<p, path>>} ELSE files

\* The handles left open when AttachFile returns: the deferred f.Close()
\* runs on the way out, whatever Attach returned.
FilesAfterReturn(files, p, path, err) == files \ {<<p, path>>}

\* The rest of AttachFile: the content type of the extension, the base name,
\* m.Attach(f, basename, ct, nil), and the deferred Close.
AttachFileAttach(p) ==
    /\ af[p].pc = "opened"
    /\ LET path == af[p].path
           ct == TypeByExtension(Ext(path))
           basename == Base(path)
           res == AttachResult(msg[p], FileReader(path), basename, ct, NoHeader, <<>>)
       IN  /\ msg' = [msg EXCEPT ![p] = res.m]
           /\ ret' = [ret EXCEPT ![p] = res.err]
           /\ args' = [args EXCEPT ![p] = [NoArgs EXCEPT !.op = "AttachFile",
                                              !.path = path, !.r = FileReader(path),
                                              !.filename = basename,
                                              !.contentType = ct]]
           /\ openFiles' = FilesAfterReturn(openFiles, p, path, res.err)
    /\ af' = [af EXCEPT ![p] = AfIdle]
    /\ ncalls' = [ncalls EXCEPT ![p] = @ + 1]
    /\ UNCHANGED <<client, call, openBodies>>

\* ------------------------------------------------------------------- JSON

\* A byte that is no valid UTF-8, and what encoding/json writes in its place.
InvalidByte == "\\xff"
ReplacementChar == "\\ufffd"

ValidUTF8(s) == \A i \in 1..Len(s) : s[i] # InvalidByte

\* encoding/json on a Go string: coerced to valid UTF-8, each invalid byte
\* replaced by U+FFFD.  The value a JSON reader gets back.
JSONString(s) ==
    [i \in 1..Len(s) |-> IF s[i] = InvalidByte THEN ReplacementChar ELSE s[i]]

JSONStrings(ss) == [i \in 1..Len(ss) |-> JSONString(ss[i])]

\* base64.RawStdEncoding.EncodeToString: the unpadded encoding of the bytes.
Base64Raw(bytes) == <<"base64.RawStdEncoding">> \o bytes

\* json.Marshal(request{From, To, Data, Bounce}): [err, json].  A struct of
\* strings, a string slice and a bool always marshals.
Marshal(request) ==
    [err |-> FALSE,
     json |-> [mail_from |-> JSONString(request.From),
               rcpt_to |-> JSONStrings(request.To),
               data |-> request.Data,
               bounce |-> request.Bounce]]

NoJSON == [mail_from |-> <<>>, rcpt_to |-> <<>>, data |-> <<>>, bounce |-> FALSE]

\* JSON values, as a decoder sees them.
JStr(s) == [t |-> "string", v |-> s]
JNum(lit) == [t |-> "number", v |-> lit]
JObj(f) == [t |-> "object", v |-> f]
JNone == [t |-> "none", v |-> ""]

\* The response bodies the relay is taken to answer with.
BodyOK == "{\"status\":\"ok\",\"time\":0.1,\"data\":{\"message_id\":\"m1\",\"messages\":{\"a@b.com\":{\"id\":5,\"token\":\"t\"}}}}"
BodyError == "{\"status\":\"error\",\"time\":0.1,\"data\":{\"code\":\"ValidationError\"}}"
BodyEmptyObject == "{}"
BodyBadData == "{\"status\":\"ok\",\"data\":5}"
BodyText == "invalid recipient"

Bodies == {BodyOK, BodyError, BodyEmptyObject, BodyBadData, BodyText}

\* The JSON value a body spells: [ok, v]; not ok when the body is no JSON.
JSONParse(body) ==
    CASE body = BodyOK ->
           [ok |-> TRUE,
            v |-> JObj("status" :> JStr("ok") @@ "time" :> JNum("0.1") @@
                       "data" :> JObj("message_id" :> JStr("m1") @@
                                      "messages" :> JObj("a@b.com" :>
                                          JObj("id" :> JNum("5") @@ "token" :> JStr("t")))))]
      [] body = BodyError ->
           [ok |-> TRUE,
            v |-> JObj("status" :> JStr("error") @@ "time" :> JNum("0.1") @@
                       "data" :> JObj("code" :> JStr("ValidationError")))]
      [] body = BodyEmptyObject -> [ok |-> TRUE, v |-> JObj(<<>>)]
      [] body = BodyBadData ->
           [ok |-> TRUE, v |-> JObj("status" :> JStr("ok") @@ "data" :> JNum("5"))]
      [] OTHER -> [ok |-> FALSE, v |-> JNone]

\* The int64 a JSON number literal decodes to.
ParseInt(lit) == CASE lit = "5" -> 5 [] OTHER -> 0
IsInt(lit) == lit = "5"

\* The member of object o under key, JNone when it has none.
Member(o, key) == IF key \in DOMAIN o.v THEN o.v[key] ELSE JNone

\* encoding/json decoding into a Go value of one kind: a member that is absent
\* or null leaves the zero value, one of another JSON type is an error.
Mismatch(v, t) == v.t \notin {t, "none", "null"}

ZeroResponseMessage == [ID |-> 0, Token |-> ""]

\* Decoding into a ResponseMessage {id, token}: [err, r].
DecodeResponseMessage(v) ==
    IF v.t \in {"none", "null"} THEN [err |-> FALSE, r |-> ZeroResponseMessage]
    ELSE IF v.t # "object" THEN [err |-> TRUE, r |-> ZeroResponseMessage]
    ELSE LET id == Member(v, "id")
             token == Member(v, "token")
         IN  [err |-> \/ Mismatch(id, "number")
                      \/ (id.t = "number" /\ ~IsInt(id.v))
                      \/ Mismatch(token, "string"),
              r |-> [ID |-> IF id.t = "number" THEN ParseInt(id.v) ELSE 0,
                     Token |-> IF token.t = "string" THEN token.v ELSE ""]]

NoMessages == [x \in {} |-> ZeroResponseMessage]

\* The zero Response: Response{}.
ZeroResponse == [MessageID |-> "", Messages |-> NoMessages]

\* Decoding into a Response {message_id, messages}: [err, r].
DecodeResponse(v) ==
    IF v.t \in {"none", "null"} THEN [err |-> FALSE, r |-> ZeroResponse]
    ELSE IF v.t # "object" THEN [err |-> TRUE, r |-> ZeroResponse]
    ELSE LET id == Member(v, "message_id")
             ms == Member(v, "messages")
             each == IF ms.t = "object"
                     THEN [k \in DOMAIN ms.v |-> DecodeResponseMessage(ms.v[k])]
                     ELSE <<>>
         IN  [err |-> \/ Mismatch(id, "string")
                      \/ Mismatch(ms, "object")
                      \/ \E k \in DOMAIN each : each[k].err,
              r |-> [MessageID |-> IF id.t = "string" THEN id.v ELSE "",
                     Messages |-> IF ms.t = "object"
                                  THEN [k \in DOMAIN each |-> each[k].r]
                                  ELSE NoMessages]]

\* json.Unmarshal(body, &r) for r a response {status, time, data}: [err, r].
\* Unknown members are skipped, absent ones leave the zero value.
Unmarshal(body) ==
    LET parsed == JSONParse(body)
        v == parsed.v
    IN  IF ~parsed.ok \/ v.t # "object"
        THEN [err |-> v.t # "null", r |-> [Status |-> "", Time |-> "0", Data |-> ZeroResponse]]
        ELSE LET status == Member(v, "status")
                 time == Member(v, "time")
                 data == DecodeResponse(Member(v, "data"))
             IN  [err |-> \/ Mismatch(status, "string")
                          \/ Mismatch(time, "number")
                          \/ data.err,
                  r |-> [Status |-> IF status.t = "string" THEN status.v ELSE "",
                         Time |-> IF time.t = "number" THEN time.v ELSE "0",
                         Data |-> data.r]]

\* ------------------------------------------------------------ SendMessage

\* The smtppool.Email SendMessage builds, the attachments field for field.
Email(m) ==
    [ReplyTo |-> m.ReplyTo, From |-> m.From, To |-> m.To, Bcc |-> m.Bcc, Cc |-> m.Cc,
     Subject |-> m.Subject, Text |-> m.PlainBody, HTML |-> m.HTMLBody,
     Sender |-> m.Sender, Headers |-> m.Headers,
     Attachments |-> [i \in 1..Len(m.attachments) |->
                        [Filename |-> m.attachments[i].Filename,
                         Header |-> m.attachments[i].Header,
                         Content |-> m.attachments[i].Content,
                         HTMLRelated |-> m.attachments[i].HTMLRelated]]]

\* email.Bytes() when it succeeds: the raw RFC 2822 document of the email.
RawMessage(m) == <<"rfc2822", Email(m)>>

\* The errors SendMessage returns: the fmt.Errorf format, and the status code
\* and response body formatted into it (%d, %s).
NilError == [msg |-> "nil", code |-> 0, text |-> ""]
Errorf(format) == [msg |-> format, code |-> 0, text |-> ""]
ErrEncoding == Errorf("error converting email to rfc 2882 message: %v")
ErrMarshal == Errorf("error marshalling request to json: %v")
ErrRequest == Errorf("error sending request to postal: %v")
ErrReadBody == Errorf("error reading body from postal response: %v")
ErrDecoding == Errorf("error unmarshalling json from postal response: %v")
ErrStatus(code, body) ==
    [msg |-> "error sending message to postal, status code: %d, error: %s",
     code |-> code, text |-> body]

ApiPath == <<"/api/v1/send/raw">>

\* A control character, which no URL may hold.
ControlChar == "\n"

\* The URL without the TrimSuffix.
RequestURLUntrimmed(baseURI) == baseURI \o ApiPath

\* fmt.Sprintf("%s/api/v1/send/raw", strings.TrimSuffix(a.baseURI, "/"))
RequestURL(baseURI) == TrimSuffix(baseURI, <<"/">>) \o ApiPath

\* Whether http.NewRequest accepts the URL (url.Parse rejects control characters).
ValidURL(url) == \A i \in 1..Len(url) : url[i] # ControlChar

\* http.Header.Add on a header without the key.
HeaderAdd(h, key, value) ==
    LET k == CanonicalMIMEHeaderKey(key)
    IN  [x \in DOMAIN h \cup {k} |-> IF x = k THEN HeaderValues(h, key) \o <<value>> ELSE h[x]]

\* The request of lines 185-190.
NewRequest(c, reqJson) ==
    [Method |-> "POST",
     URL |-> RequestURL(c.baseURI),
     Header |-> HeaderAdd(HeaderAdd(NoHeader, "X-Server-API-Key", c.token),
                          "Content-Type", <<"application/json">>),
     Body |-> reqJson]

NoRequest == [Method |-> "", URL |-> <<>>, Header |-> NoHeader, Body |-> NoJSON]
NoResp == [StatusCode |-> 0, Body |-> ""]
NoRet == [resp |-> ZeroResponse, err |-> NilError]

\* A SendMessage frame: where the call is, its argument and its locals.
\*   enc, tr, rd: how email.Bytes, httpClient.Do and io.ReadAll ended
\*   sent: the requests handed to the transport;  parsed: json.Unmarshal ran
IdleFrame ==
    [pc |-> "idle", msg |-> NewMessage(<<>>, <<>>), enc |-> "", rawMsg |-> <<>>,
     req |-> NoRequest, sent |-> 0, tr |-> "", resp |-> NoResp, rd |-> "",
     parsed |-> FALSE, ret |-> NoRet]

Return(f, resp, err) == [f EXCEPT !.pc = "done", !.ret = [resp |-> resp, err |-> err]]

\* client.SendMessage(msg[p]): the Message is passed by value.
SendMessage(p) ==
    /\ call[p].pc = "idle"
    /\ af[p].pc = "idle"
    /\ call' = [call EXCEPT ![p] = [IdleFrame EXCEPT !.pc = "encode", !.msg = msg[p]]]
    /\ UNCHANGED <<client, msg, ncalls, ret, args, af, openFiles, openBodies>>

\* email.Bytes() with its error recorded and not returned: the call goes on.
AfterEncodeIgnoringError(f, ok) ==
    [f EXCEPT !.pc = "request", !.enc = IF ok THEN "ok" ELSE "err",
              !.rawMsg = RawMessage(f.msg)]

\* The frame after email.Bytes() (lines 145-173), which succeeded or not.
AfterEncode(f, ok) ==
    IF ok
    THEN [f EXCEPT !.pc = "request", !.enc = "ok", !.rawMsg = RawMessage(f.msg)]
    ELSE Return([f EXCEPT !.enc = "err"], ZeroResponse, ErrEncoding)

Encode(p, ok) ==
    /\ call[p].pc = "encode"
    /\ call' = [call EXCEPT ![p] = AfterEncode(@, ok)]
    /\ UNCHANGED <<client, msg, ncalls, ret, args, af, openFiles, openBodies>>

\* json.Marshal and http.NewRequest with its headers (lines 175-190).
AfterBuildRequest(f, c) ==
    LET m == Marshal([From |-> f.msg.From, To |-> f.msg.To,
                      Data |-> Base64Raw(f.rawMsg), Bounce |-> FALSE])
        req == NewRequest(c, m.json)
    IN  IF m.err THEN Return(f, ZeroResponse, ErrMarshal)
        ELSE IF ~ValidURL(req.URL) THEN Return(f, ZeroResponse, ErrRequest)
        ELSE [f EXCEPT !.pc = "do", !.req = req]

BuildRequest(p) ==
    /\ call[p].pc = "request"
    /\ call' = [call EXCEPT ![p] = AfterBuildRequest(@, client)]
    /\ UNCHANGED <<client, msg, ncalls, ret, args, af, openFiles, openBodies>>

\* a.httpClient.Do(req): the request goes to the transport.
Do(p) ==
    /\ call[p].pc = "do"
    /\ call' = [call EXCEPT ![p] = [@ EXCEPT !.pc = "await", !.sent = @ + 1]]
    /\ UNCHANGED <<client, msg, ncalls, ret, args, af, openFiles, openBodies>>

\* A transport error answered by sending the request again.
AfterDoErrorRetry(f) == [f EXCEPT !.pc = "do", !.tr = "err"]

\* The frame after Do returned an error (lines 193-195).
AfterDoError(f) == Return([f EXCEPT !.tr = "err"], ZeroResponse, ErrRequest)

\* Do fails: DNS, connection, timeout, TLS.
DoFails(p) ==
    /\ call[p].pc = "await"
    /\ call' = [call EXCEPT ![p] = AfterDoError(@)]
    /\ UNCHANGED <<client, msg, ncalls, ret, args, af, openFiles, openBodies>>

\* Do returns the relay's response; its body is open and its Close deferred.
DoReturns(p, status, body) ==
    /\ call[p].pc = "await"
    /\ call' = [call EXCEPT ![p] = [@ EXCEPT !.pc = "read", !.tr = "ok",
                                       !.resp = [StatusCode |-> status, Body |-> body]]]
    /\ openBodies' = openBodies \cup {p}
    /\ UNCHANGED <<client, msg, ncalls, ret, args, af, openFiles>>

\* Every 2xx status taken for success.
StatusNot2xx(code) == code < 200 \/ code > 299

\* resp.StatusCode != http.StatusOK
StatusNotOK(code) == code # StatusOK

\* The body kept in a place the calls share: the body of some call that is
\* reading, not of p's own.
BodyReadShared(p) == call[CHOOSE q \in Callers : call[q].pc = "read"].resp.Body

\* body, err := io.ReadAll(resp.Body), in p's frame.
BodyRead(p) == call[p].resp.Body

\* Lines 198-212 on the body read: the status check, json.Unmarshal, r.Data.
Interpret(f, body) ==
    IF StatusNotOK(f.resp.StatusCode)
    THEN Return(f, ZeroResponse, ErrStatus(f.resp.StatusCode, body))
    ELSE LET r == Unmarshal(body)
         IN  IF r.err THEN Return([f EXCEPT !.parsed = TRUE], ZeroResponse, ErrDecoding)
             ELSE Return([f EXCEPT !.parsed = TRUE], r.r.Data, NilError)

\* The frame after io.ReadAll: its error returned, or the body interpreted.
AfterRead(f, ok, body) ==
    IF ok THEN Interpret([f EXCEPT !.rd = "ok"], body)
    ELSE Return([f EXCEPT !.rd = "err"], ZeroResponse, ErrReadBody)

\* The bodies left open when SendMessage returns after Do succeeded: the
\* deferred resp.Body.Close() runs on the way out.
BodiesAfterReturn(bodies, p, err) == bodies \ {p}

\* From io.ReadAll to the return, the deferred Close included.
ReadAndInterpret(p, ok) ==
    /\ call[p].pc = "read"
    /\ LET f == AfterRead(call[p], ok, BodyRead(p))
       IN  /\ call' = [call EXCEPT ![p] = f]
           /\ openBodies' = BodiesAfterReturn(openBodies, p, f.ret.err)
    /\ UNCHANGED <<client, msg, ncalls, ret, args, af, openFiles>>

\* The caller has the result; nothing of the call is kept.
Returned(p) ==
    /\ call[p].pc = "done"
    /\ call' = [call EXCEPT ![p] = IdleFrame]
    /\ UNCHANGED <<client, msg, ncalls, ret, args, af, openFiles, openBodies>>

\* ----------------------------------------------------------------- inputs

Token == <<"secret-token">>

BaseURIs ==
    {<<"http://postal">>,
     <<"http://postal", "/">>,
     <<"http://postal", "/", "/">>,
     <<"http://postal", ControlChar>>}

Clients == {[baseURI |-> u, token |-> Token] : u \in BaseURIs}

ToA == <<"a@b.com">>
ToB == <<"c@d.com">>
FromGood == <<"from@example.com">>
FromBad == <<"from", InvalidByte, "@example.com">>

TestMessage == NewMessage(FromGood, <<ToA>>)

Readers == {[data |-> <<"h", "i">>, err |-> FALSE], [data |-> <<"h">>, err |-> TRUE]}
Filenames == {<<"a", ".", "t", "x", "t">>, <<"b">>}
ContentTypes == {<<>>, <<"text/plain">>}
HeaderArgs ==
    {NoHeader,
     "X-Tag" :> << <<"1">>, <<"2">> >>,
     "Content-Type" :> << <<"x/a">> >> @@ "content-type" :> << <<"x/b">> >>}

\* The Messages handed to SendMessage: envelopes of one and two recipients in
\* either order, a From that is no valid UTF-8, a Message with an attachment.
SendMessages ==
    {NewMessage(FromGood, <<ToA, ToB>>),
     AttachResult(NewMessage(FromGood, <<ToB, ToA>>),
                  FileReader(PathHello), Base(PathHello),
                  TypeByExtension(Ext(PathHello)), NoHeader, <<>>).m,
     NewMessage(FromBad, <<ToA>>)}

Statuses == {200, 201, 422}

\* ------------------------------------------------------- specifications

InitFrames ==
    /\ ncalls = [p \in Callers |-> 0]
    /\ ret = [p \in Callers |-> "nil"]
    /\ args = [p \in Callers |-> NoArgs]
    /\ af = [p \in Callers |-> AfIdle]
    /\ openFiles = {}
    /\ call = [p \in Callers |-> IdleFrame]
    /\ openBodies = {}

SendSteps(p) ==
    \/ SendMessage(p)
    \/ \E ok \in BOOLEAN : Encode(p, ok)
    \/ BuildRequest(p)
    \/ Do(p)
    \/ DoFails(p)
    \/ \E status \in Statuses, body \in Bodies : DoReturns(p, status, body)
    \/ \E ok \in BOOLEAN : ReadAndInterpret(p, ok)
    \/ Returned(p)

\* One caller composes a Message: every argument of Attach, every file.
InitBuild ==
    /\ client \in {c \in Clients : c.baseURI = <<"http://postal">>}
    /\ msg = [p \in Callers |-> TestMessage]
    /\ InitFrames

NextBuild ==
    \/ \E r \in Readers, filename \in Filenames, contentType \in ContentTypes,
          headers \in HeaderArgs : Attach("c1", r, filename, contentType, headers)
    \/ \E path \in Paths : AttachFileOpen("c1", path)
    \/ AttachFileAttach("c1")

SpecBuild == InitBuild /\ [][NextBuild]_vars

\* Two callers send their Messages through one client, concurrently.
InitSend ==
    /\ client \in Clients
    /\ msg \in [Callers -> SendMessages]
    /\ InitFrames

NextSend == \E p \in Callers : SendSteps(p)

SpecSend == InitSend /\ [][NextSend]_vars

\* The flow of TestSend: one caller attaches files to its Message and sends it.
Init ==
    /\ client \in Clients
    /\ msg = [p \in Callers |-> TestMessage]
    /\ InitFrames

Next ==
    \/ \E r \in Readers : Attach("c1", r, <<"b">>, <<>>, NoHeader)
    \/ \E path \in Paths : AttachFileOpen("c1", path)
    \/ AttachFileAttach("c1")
    \/ SendSteps("c1")

Spec == Init /\ [][Next]_vars

\* ----------------------------------------------------------------- claims

Range(seq) == {seq[i] : i \in 1..Len(seq)}

\* Whether sub occurs in s.
Contains(s, sub) ==
    \E i \in 1..(Len(s) - Len(sub) + 1) : SubSeq(s, i, i + Len(sub) - 1) = sub

Done(p) == call[p].pc = "done"

\* ---- C1

\* C1, as claimed: a call whose encoding and marshaling succeeded sends
\* exactly one request, never a second, and the body of that request has
\* mail_from equal to From, rcpt_to equal to To in order, and bounce false.
C1_OnePostAsClaimed ==
    \A p \in Callers :
        /\ call[p].sent <= 1
        /\ (Done(p) /\ call[p].enc = "ok") =>
              /\ call[p].sent = 1
              /\ call[p].req.Method = "POST"
              /\ call[p].req.Body.mail_from = call[p].msg.From
              /\ call[p].req.Body.rcpt_to = call[p].msg.To
              /\ call[p].req.Body.bounce = FALSE

\* C1, amended: no call ever sends a second request; a call whose encoding
\* and marshaling succeeded and whose URL http.NewRequest accepts sends exactly
\* one POST, also when the transport fails or the relay answers non-200; its
\* body has bounce false, as many rcpt_to entries as To, in order, and
\* mail_from and each rcpt_to entry equal From and the To entry when that is
\* valid UTF-8 (an invalid byte arrives as U+FFFD).
C1_OnePost ==
    \A p \in Callers :
        /\ call[p].sent <= 1
        /\ (Done(p) /\ call[p].enc = "ok" /\ ValidURL(client.baseURI \o ApiPath)) =>
              /\ call[p].sent = 1
              /\ call[p].req.Method = "POST"
              /\ call[p].req.Body.bounce = FALSE
              /\ ValidUTF8(call[p].msg.From) =>
                    call[p].req.Body.mail_from = call[p].msg.From
              /\ Len(call[p].req.Body.rcpt_to) = Len(call[p].msg.To)
              /\ \A i \in 1..Len(call[p].msg.To) :
                    ValidUTF8(call[p].msg.To[i]) =>
                        call[p].req.Body.rcpt_to[i] = call[p].msg.To[i]
              /\ ~ValidUTF8(call[p].msg.From) =>
                    call[p].req.Body.mail_from # call[p].msg.From

\* A call of two recipients is over, its one request sent, the transport failed.
C1_Witness ==
    \E p \in Callers :
        /\ Done(p) /\ call[p].sent = 1 /\ call[p].tr = "err"
        /\ call[p].msg.To = <<ToB, ToA>>
        /\ call[p].req.Body.rcpt_to = <<ToB, ToA>>

\* ---- C2

\* What SendMessage returns for a non-200 answer: the zero Response and the
\* error that carries the status code and the body as it came.
IsRelayError(f) ==
    /\ f.ret.resp = ZeroResponse
    /\ f.ret.err.msg = "error sending message to postal, status code: %d, error: %s"
    /\ f.ret.err.code = f.resp.StatusCode
    /\ f.ret.err.text = f.resp.Body
    /\ ~f.parsed

\* C2, as claimed: whenever the transport returned a response whose status is
\* not 200, the call returns the zero Response and the error carrying the
\* status code and the body verbatim, and the body is not parsed.
C2_RelayErrorAsClaimed ==
    \A p \in Callers :
        (Done(p) /\ call[p].tr = "ok" /\ call[p].resp.StatusCode # 200) =>
            IsRelayError(call[p])

\* C2, amended: whenever the transport returned a response whose status is
\* not 200 and whose body was read in full, the call returns the zero Response
\* and the error carrying the status code and the body verbatim, and the body
\* is not parsed; when reading the body fails, the read error is returned.
C2_RelayError ==
    \A p \in Callers :
        (Done(p) /\ call[p].tr = "ok" /\ call[p].resp.StatusCode # 200) =>
            IF call[p].rd = "ok" THEN IsRelayError(call[p])
            ELSE call[p].ret = [resp |-> ZeroResponse, err |-> ErrReadBody]

\* A call answered 201, another 2xx, is over with the relay error.
C2_Witness ==
    \E p \in Callers :
        /\ Done(p) /\ call[p].resp.StatusCode = 201 /\ call[p].rd = "ok"
        /\ call[p].resp.Body = BodyOK
        /\ call[p].ret.err = ErrStatus(201, BodyOK)

\* ---- C3

\* Whether the body is the expected envelope {status, time, data}, data a
\* Response {message_id, messages}.
IsEnvelope(body) ==
    LET parsed == JSONParse(body)
    IN  /\ parsed.ok
        /\ parsed.v.t = "object"
        /\ Member(parsed.v, "status").t = "string"
        /\ Member(parsed.v, "time").t = "number"
        /\ Member(parsed.v, "data").t = "object"
        /\ Member(Member(parsed.v, "data"), "message_id").t = "string"
        /\ Member(Member(parsed.v, "data"), "messages").t = "object"
        /\ ~Unmarshal(body).err

\* C3: on status 200 a body that is not the expected envelope yields the
\* decoding error, never the zero Response with a nil error; a body that is
\* the envelope yields its data with a nil error.
C3_DecodingError ==
    \A p \in Callers :
        (Done(p) /\ call[p].rd = "ok" /\ call[p].resp.StatusCode = 200) =>
            IF IsEnvelope(call[p].resp.Body)
            THEN call[p].ret = [resp |-> Unmarshal(call[p].resp.Body).r.Data,
                                err |-> NilError]
            ELSE /\ call[p].ret.err = ErrDecoding
                 /\ call[p].ret # [resp |-> ZeroResponse, err |-> NilError]

\* ---- C4

\* C4: a call whose encoding failed returns the encoding error and hands no
\* request to the transport; every step runs only after the steps before it
\* succeeded (encode, marshal and request, transmit, read, interpret), and a
\* failed step ends the call.
C4_StepsInOrder ==
    \A p \in Callers :
        LET f == call[p]
        IN  /\ f.enc = "err" =>
                /\ f.pc = "done"
                /\ f.ret = [resp |-> ZeroResponse, err |-> ErrEncoding]
                /\ f.sent = 0 /\ f.req = NoRequest /\ f.tr = ""
            /\ f.req # NoRequest => f.enc = "ok"
            /\ f.sent > 0 => f.req # NoRequest
            /\ f.tr # "" => f.sent > 0
            /\ f.rd # "" => f.tr = "ok"
            /\ f.parsed => f.rd = "ok"
            /\ (f.pc = "done" /\ f.enc = "ok" /\ f.req = NoRequest) =>
                  (f.sent = 0 /\ f.tr = "" /\ f.ret.err \in {ErrMarshal, ErrRequest})
            /\ f.tr = "err" => (f.pc = "done" /\ f.rd = "" /\ ~f.parsed)
            /\ f.rd = "err" => (f.pc = "done" /\ ~f.parsed)

\* A call is over whose encoding failed.
C4_Witness ==
    \E p \in Callers :
        Done(p) /\ call[p].enc = "err" /\ call[p].ret.err = ErrEncoding /\ call[p].sent = 0

\* ---- C5, C6

LastAttachment(p) == msg[p].attachments[Len(msg[p].attachments)]

\* p's last builder call was an Attach that succeeded.
Attached(p) == args[p].op = "Attach" /\ ret[p] = "nil"

DefaultContentType(a) ==
    IF a.contentType = <<>> THEN ContentTypeOctetStream ELSE a.contentType
DefaultDisposition(a) ==
    <<"attachment;\r\n ", "filename=\"">> \o a.filename \o <<"\"">>
DefaultContentID(a) == <<"<">> \o a.filename \o <<">">>

\* C5: after Attach with extra headers, every supplied value is among the
\* attachment's values of its header name, those of a repeated name too, and
\* the four defaults are still among the values of their names.
C5_HeadersAdded ==
    \A p \in Callers :
        Attached(p) =>
            LET a == args[p]
                h == LastAttachment(p).Header
            IN  /\ \A key \in DOMAIN a.headers :
                      Range(a.headers[key]) \subseteq Range(HeaderValues(h, key))
                /\ DefaultContentType(a) \in Range(HeaderValues(h, HdrContentType))
                /\ DefaultDisposition(a) \in Range(HeaderValues(h, HdrContentDisposition))
                /\ DefaultContentID(a) \in Range(HeaderValues(h, HdrContentID))
                /\ contentEncBase64 \in Range(HeaderValues(h, HdrContentTransferEncoding))

\* C6: every attachment added by Attach, whatever the extra headers, has
\* Content-Type equal to the contentType given, or application/octet-stream
\* for an empty one, Content-Transfer-Encoding base64, a Content-Disposition
\* holding filename="<filename>", and Content-ID <filename>.
C6_DefaultHeaders ==
    \A p \in Callers :
        Attached(p) =>
            LET a == args[p]
                h == LastAttachment(p).Header
            IN  /\ HeaderGet(h, HdrContentType) = DefaultContentType(a)
                /\ HeaderGet(h, HdrContentTransferEncoding) = contentEncBase64
                /\ Contains(HeaderGet(h, HdrContentDisposition),
                            <<"filename=\"">> \o a.filename \o <<"\"">>)
                /\ HeaderGet(h, HdrContentID) = DefaultContentID(a)

\* ---- C7

\* Whether the builder call of arguments a can read its content.
Readable(a) == IF a.op = "AttachFile" THEN FileExists(a.path) /\ ~a.r.err ELSE ~a.r.err

\* C7: every builder call that succeeds appends exactly one attachment, of the
\* call's filename and content, at the end and leaves the earlier ones as they
\* were; every call that cannot read its content returns an error and appends
\* nothing; nothing else changes the attachments.
C7_AppendOnly ==
    [][\A p \in Callers :
          LET old == msg[p].attachments
              new == msg'[p].attachments
          IN  IF ncalls'[p] = ncalls[p] + 1
              THEN IF Readable(args'[p])
                   THEN /\ ret'[p] = "nil"
                        /\ Len(new) = Len(old) + 1
                        /\ SubSeq(new, 1, Len(old)) = old
                        /\ new[Len(new)].Filename = args'[p].filename
                        /\ new[Len(new)].Content = args'[p].r.data
                   ELSE /\ ret'[p] # "nil"
                        /\ new = old
              ELSE new = old]_vars

\* Three calls were made: two attached, in call order, and the last failed.
C7_Witness ==
    \E p \in Callers :
        /\ ncalls[p] = 3 /\ ret[p] = "open error"
        /\ Len(msg[p].attachments) = 2
        /\ msg[p].attachments[1].Filename = <<"b">>
        /\ msg[p].attachments[2].Filename = Base(PathHello)

\* ---- C8

RECURSIVE TrimAllSlashes(_)
TrimAllSlashes(s) ==
    IF HasSuffix(s, <<"/">>) THEN TrimAllSlashes(SubSeq(s, 1, Len(s) - 1)) ELSE s

\* The method and the two headers of a request sent.
IsPostWithHeaders(req) ==
    /\ req.Method = "POST"
    /\ HeaderValues(req.Header, "X-Server-API-Key") = <<client.token>>
    /\ HeaderValues(req.Header, "Content-Type") = << <<"application/json">> >>

\* C8, as claimed: the request sent is a POST to the baseURI without its
\* trailing slashes, however many, followed by /api/v1/send/raw, with the
\* X-Server-API-Key and Content-Type headers.
C8_RequestURLAsClaimed ==
    \A p \in Callers :
        call[p].sent > 0 =>
            /\ IsPostWithHeaders(call[p].req)
            /\ call[p].req.URL = TrimAllSlashes(client.baseURI) \o ApiPath
            /\ ~HasSuffix(call[p].req.URL, <<"/">> \o ApiPath)

\* C8, amended: the request sent is a POST to the baseURI without one
\* trailing slash, when it has one, followed by /api/v1/send/raw, with the
\* X-Server-API-Key and Content-Type headers; no slash stands before
\* /api/v1/send/raw when the baseURI ends in at most one slash, and one less
\* than the baseURI ends in stands there otherwise.
C8_RequestURL ==
    \A p \in Callers :
        call[p].sent > 0 =>
            /\ IsPostWithHeaders(call[p].req)
            /\ \E base \in {client.baseURI, SubSeq(client.baseURI, 1, Len(client.baseURI) - 1)} :
                  /\ call[p].req.URL = base \o ApiPath
                  /\ client.baseURI \in {base, base \o <<"/">>}
                  /\ HasSuffix(client.baseURI, <<"/">>) => base # client.baseURI
            /\ ~HasSuffix(client.baseURI, <<"/", "/">>) =>
                  ~HasSuffix(call[p].req.URL, <<"/">> \o ApiPath)

\* A request was sent by a client whose baseURI ends in one slash.
C8_Witness ==
    \E p \in Callers :
        /\ call[p].sent = 1
        /\ client.baseURI = <<"http://postal", "/">>
        /\ call[p].req.URL = <<"http://postal", "/api/v1/send/raw">>

\* ---- C9

\* SendMessage as a function of the client, the Message and how email.Bytes,
\* the transport and the body read ended: the frame at the return.
SendMessageAlone(c, m, enc, tr, resp, rd) ==
    LET f1 == AfterEncode([IdleFrame EXCEPT !.pc = "encode", !.msg = m], enc = "ok")
        f2 == AfterBuildRequest(f1, c)
        f3 == [f2 EXCEPT !.pc = "await", !.sent = @ + 1]
        f4 == [f3 EXCEPT !.pc = "read", !.tr = "ok", !.resp = resp]
    IN  IF f1.pc = "done" THEN f1
        ELSE IF f2.pc = "done" THEN f2
        ELSE IF tr = "err" THEN AfterDoError(f3)
        ELSE AfterRead(f4, rd = "ok", resp.Body)

\* Every call that is over ended as it would have ended alone, of its own
\* Message, which is the caller's, and the transport's answer to it.
C9_OwnResult ==
    \A p \in Callers :
        Done(p) =>
            /\ call[p].msg = msg[p]
            /\ call[p] = SendMessageAlone(client, msg[p], call[p].enc, call[p].tr,
                                          call[p].resp, call[p].rd)

\* C9: concurrent calls do not interfere.  The client's fields and the
\* callers' Messages are never written; a step of one call leaves the other
\* call's frame alone; a call starts from nothing an earlier call left; each
\* call's request and result are those of its own Message and the transport's
\* answer to its own request, under every interleaving.
C9_NoInterference ==
    /\ []C9_OwnResult
    /\ [][/\ client' = client
          /\ msg' = msg
          /\ \A p \in Callers :
                /\ call'[p] # call[p] => \A q \in Callers \ {p} : call'[q] = call[q]
                /\ (call[p].pc = "idle" /\ call'[p].pc # "idle") =>
                      call'[p] = [IdleFrame EXCEPT !.pc = "encode", !.msg = msg[p]]
                /\ call'[p].pc = "idle" => call'[p] = IdleFrame]_vars

\* Two calls of different Messages are over at once, with different answers.
C9_Witness ==
    /\ \A p \in Callers : Done(p)
    /\ msg["c1"] # msg["c2"]
    /\ call["c1"].resp.Body = BodyOK /\ call["c1"].resp.StatusCode = 200
    /\ call["c2"].resp.Body = BodyText /\ call["c2"].resp.StatusCode = 422
    /\ call["c1"].ret.err = NilError
    /\ call["c2"].ret.err = ErrStatus(422, BodyText)

\* ---- C10

\* C10: nothing a call opened is open once it returned.  The handle AttachFile
\* opened is open while it runs and closed when it returns, with or without an
\* error; the response body is open from the transport's answer and closed when
\* SendMessage returns, whatever it returns.
C10_ResourcesClosed ==
    \A p \in Callers :
        /\ af[p].pc = "idle" => \A path \in Paths : <<p, path>> \notin openFiles
        /\ af[p].pc = "opened" => <<p, af[p].path>> \in openFiles
        /\ call[p].pc = "read" => p \in openBodies
        /\ call[p].pc \in {"idle", "done"} => p \notin openBodies

\* AttachFile returned a read error, and a SendMessage whose body read failed
\* is over.
C10_Witness ==
    \E p \in Callers :
        /\ args[p].op = "AttachFile" /\ ret[p] = "read error"
        /\ Done(p) /\ call[p].rd = "err"
        /\ Len(msg[p].attachments) = 1

====
